---- MODULE Spec2Model ----
(***************************************************************************)
(* A model of ppcls/arch/backbone/legendary_models/hrnet.py.               *)
(*                                                                         *)
(* The file builds a tree of layer objects (the constructors) and pushes   *)
(* tensors through it (the forward methods).  A tensor is modelled by its  *)
(* shape, an abstract content tag v and the name of the operation that     *)
(* produced it; a layer is a record of the attributes its constructor      *)
(* sets.  Every forward method is an operator that returns                 *)
(*     [ok, out, trace]                                                    *)
(* ok = FALSE when the method raised, out = the tensors returned, trace =  *)
(* the sublayer calls and tensor operations performed, in order.           *)
(***************************************************************************)
EXTENDS Integers, Sequences, FiniteSets, TLC

(***************************************************************************)
(* Bounds of the model.                                                    *)
(***************************************************************************)
MaxSize == 8        \* feature maps given to a component are 1..MaxSize high and wide
MaxBatch == 1       \* batch sizes 1..MaxBatch
MaxImage == 2       \* images given to HRNet are 32*m for m in 1..MaxImage, 100 or 224
MaxClassDim == 2    \* class_dim in 1..MaxClassDim, or the default
MaxPasses == 2      \* forward passes made on one constructed object

(***************************************************************************)
(* Python and framework primitives.                                        *)
(***************************************************************************)
None == [cls |-> "None"]

Str(name, n) == [cls |-> "str", name |-> name, n |-> n]

Tensor(shape, v, by) == [shape |-> shape, v |-> v, by |-> by]

Ev(op, x, y) ==
    [op |-> op, a |-> x.shape, b |-> y.shape, fa |-> x.by, fb |-> y.by,
     part |-> "", top |-> "", m |-> 0, i |-> 0, j |-> 0, k |-> 0, idx |-> 0,
     name |-> <<>>]

NoTensor == Tensor(<<>>, "p", "")

Ok(out, trace) == [ok |-> TRUE, out |-> out, trace |-> trace]

Raise(trace) == [ok |-> FALSE, out |-> <<>>, trace |-> trace]

RECURSIVE Pow2(_)
Pow2(n) == IF n = 0 THEN 1 ELSE 2 * Pow2(n - 1)

Max(a, b) == IF a >= b THEN a ELSE b

\* nn.Conv2D output size along one axis.
ConvSize(size, kernel, stride, padding) ==
    ((size + 2 * padding - kernel) \div stride) + 1

\* Broadcasting of two shapes by an elementwise operator: equal rank, and
\* along every axis the sizes are equal or one of them is 1.
Broadcastable(s, t) ==
    /\ Len(s) = Len(t)
    /\ \A d \in 1..Len(s) : s[d] = t[d] \/ s[d] = 1 \/ t[d] = 1

BroadcastShape(s, t) == [d \in 1..Len(s) |-> Max(s[d], t[d])]

\* The content of a tensor is one of two abstract values; an operator on two
\* tensors combines their contents.
Data == {"p", "q"}

Mix(v, w) == IF v = w THEN "p" ELSE "q"

\* paddle.add(x, y)
paddle_add(x, y) ==
    IF Broadcastable(x.shape, y.shape)
    THEN Ok(<<Tensor(BroadcastShape(x.shape, y.shape), Mix(x.v, y.v), "add")>>,
            <<Ev("add", x, y)>>)
    ELSE Raise(<<Ev("add", x, y)>>)

\* F.relu that returns its argument untouched when it has nothing to clamp:
\* a shortcut taken on the tensor's values.
F_relu_shortcut(x) ==
    IF x.v = "q" THEN Ok(<<x>>, <<>>)
    ELSE Ok(<<Tensor(x.shape, x.v, "relu")>>, <<Ev("relu", x, NoTensor)>>)

\* F.relu(x)
F_relu(x) == Ok(<<Tensor(x.shape, x.v, "relu")>>, <<Ev("relu", x, NoTensor)>>)

\* F.upsample(x, scale_factor, mode="nearest")
F_upsample(x, scale_factor) ==
    LET y == Tensor(<<x.shape[1], x.shape[2],
                      x.shape[3] * scale_factor, x.shape[4] * scale_factor>>,
                    x.v, "upsample")
    IN  Ok(<<y>>, <<Ev("upsample", x, y)>>)

\* nn.Linear(in_features, out_features) applied to x
Linear(in_features, out_features, x) ==
    IF Len(x.shape) >= 1 /\ x.shape[Len(x.shape)] = in_features
    THEN Ok(<<Tensor([d \in 1..Len(x.shape) |->
                        IF d = Len(x.shape) THEN out_features ELSE x.shape[d]],
                     x.v, "linear")>>, <<>>)
    ELSE Raise(<<>>)

\* Sets a field of every event of a trace.
TagOp(trace, op) == [n \in 1..Len(trace) |-> [trace[n] EXCEPT !.op = op]]
TagPart(trace, part) == [n \in 1..Len(trace) |-> [trace[n] EXCEPT !.part = part]]
TagTop(trace, top) == [n \in 1..Len(trace) |-> [trace[n] EXCEPT !.top = top]]
TagM(trace, m) == [n \in 1..Len(trace) |-> [trace[n] EXCEPT !.m = m]]
TagI(trace, i) == [n \in 1..Len(trace) |-> [trace[n] EXCEPT !.i = i]]
TagJ(trace, j) == [n \in 1..Len(trace) |-> [trace[n] EXCEPT !.j = j]]

\* Results in sequence: s after acc, s's tensors replacing acc's.
After(acc, s) == [ok |-> s.ok, out |-> s.out, trace |-> acc.trace \o s.trace]

\* Results in sequence, s's tensors appended to acc's (outs.append).
Append_out(acc, s) ==
    [ok |-> s.ok, out |-> IF s.ok THEN acc.out \o s.out ELSE <<>>,
     trace |-> acc.trace \o s.trace]

\* r, then f on r's tensors unless r raised.
Then(r, f(_)) == IF r.ok THEN After(r, f(r.out)) ELSE r

\* r with a field of its events set.
WithPart(r, part) == [r EXCEPT !.trace = TagPart(@, part)]
WithM(r, m) == [r EXCEPT !.trace = TagM(@, m)]
WithI(r, i) == [r EXCEPT !.trace = TagI(@, i)]
WithIJ(r, i, j) == [r EXCEPT !.trace = TagJ(TagI(@, i), j)]

\* A ConvBNLayer whose Conv2D is left at its default padding of 0.
ConvBNLayer_unpadded(num_channels, num_filters, filter_size, stride, act) ==
    [cls |-> "ConvBNLayer",
     in_channels |-> num_channels,
     out_channels |-> num_filters,
     kernel_size |-> filter_size,
     stride |-> stride,
     padding |-> 0,
     act |-> act]

(***************************************************************************)
(* ConvBNLayer                                                             *)
(***************************************************************************)
ConvBNLayer(num_channels, num_filters, filter_size, stride, act) ==
    [cls |-> "ConvBNLayer",
     in_channels |-> num_channels,
     out_channels |-> num_filters,
     kernel_size |-> filter_size,
     stride |-> stride,
     padding |-> (filter_size - 1) \div 2,
     act |-> act]

ConvBNLayer_forward(self, x) ==
    IF Len(x.shape) = 4 /\ x.shape[2] = self.in_channels
    THEN LET y == Tensor(<<x.shape[1], self.out_channels,
                           ConvSize(x.shape[3], self.kernel_size, self.stride, self.padding),
                           ConvSize(x.shape[4], self.kernel_size, self.stride, self.padding)>>,
                         x.v, "conv")
         IN  Ok(<<y>>, <<Ev("conv", x, y)>>)
    ELSE Raise(<<Ev("conv", x, NoTensor)>>)

\* The result r of calling the attribute `name`: its events and its tensor
\* carry the attribute's name.
Attr(r, name) ==
    [ok |-> r.ok,
     out |-> [n \in 1..Len(r.out) |-> [r.out[n] EXCEPT !.by = name]],
     trace |-> TagOp(r.trace, name)]

(***************************************************************************)
(* SELayer                                                                 *)
(***************************************************************************)
\* The hidden width rounded up instead of truncated.
MedCh_ceil(num_channels, reduction_ratio) ==
    (num_channels + reduction_ratio - 1) \div reduction_ratio

\* int(num_channels / reduction_ratio): true division, truncated.
MedCh(num_channels, reduction_ratio) == num_channels \div reduction_ratio

\* Every SELayer of the model has at least 16 channels, so the constructor's
\* 1.0 / math.sqrt(med_ch) never divides by zero.
SELayer(num_channels, num_filters, reduction_ratio) ==
    [cls |-> "SELayer",
     num_channels |-> num_channels,
     reduction_ratio |-> reduction_ratio,
     squeeze |-> [in_features |-> num_channels,
                  out_features |-> MedCh(num_channels, reduction_ratio)],
     excitation |-> [in_features |-> MedCh(num_channels, reduction_ratio),
                     out_features |-> num_filters]]

SELayer_out(input, out) == Ok(<<out>>, <<Ev("se", input, out)>>)

\* excitation = paddle.unsqueeze(excitation, axis=[2, 3]); out = input * excitation
SELayer_scale(input, excitation) ==
    IF Broadcastable(input.shape, <<excitation.shape[1], excitation.shape[2], 1, 1>>)
    THEN SELayer_out(input,
            Tensor(BroadcastShape(input.shape,
                                  <<excitation.shape[1], excitation.shape[2], 1, 1>>),
                   Mix(input.v, excitation.v), "se"))
    ELSE Raise(<<Ev("se", input, NoTensor)>>)

\* The gate's event is the only one of the result.
SELayer_event(input, r) ==
    IF r.ok THEN r ELSE Raise(<<Ev("se", input, NoTensor)>>)

\* pool2d_gap, squeeze of axes 2 and 3, the two Linear layers, unsqueeze and
\* the product with the input; one event for the whole gate.
SELayer_forward(self, input) ==
    IF Len(input.shape) # 4 THEN Raise(<<Ev("se", input, NoTensor)>>)
    ELSE SELayer_event(input,
            Then(Linear(self.squeeze.in_features, self.squeeze.out_features,
                        Tensor(<<input.shape[1], input.shape[2]>>, input.v, "squeeze")),
                 LAMBDA s : Then(Linear(self.excitation.in_features,
                                        self.excitation.out_features, s[1]),
                                 LAMBDA e : SELayer_scale(input, e[1]))))

(***************************************************************************)
(* BottleneckBlock                                                         *)
(***************************************************************************)
BottleneckBlock(num_channels, num_filters, has_se, stride, downsample) ==
    [cls |-> "BottleneckBlock",
     has_se |-> has_se,
     downsample |-> downsample,
     conv1 |-> ConvBNLayer(num_channels, num_filters, 1, 1, "relu"),
     conv2 |-> ConvBNLayer(num_filters, num_filters, 3, stride, "relu"),
     conv3 |-> ConvBNLayer(num_filters, num_filters * 4, 1, 1, "none"),
     conv_down |-> IF downsample
                   THEN ConvBNLayer(num_channels, num_filters * 4, 1, 1, "none")
                   ELSE None,
     se |-> IF has_se THEN SELayer(num_filters * 4, num_filters * 4, 16) ELSE None]

\* residual = self.conv_down(x) if self.downsample, else x
Block_residual(self, x) ==
    IF self.downsample
    THEN Attr(ConvBNLayer_forward(self.conv_down, x), "conv_down")
    ELSE Ok(<<x>>, <<>>)

\* A block that holds its SE layer and never applies it.
Block_gate_unused(self, last) == Ok(<<last>>, <<>>)

\* conv = self.se(conv) if self.has_se
Block_gate(self, last) ==
    IF self.has_se
    THEN Attr(SELayer_forward(self.se, last), "se")
    ELSE Ok(<<last>>, <<>>)

\* The tail shared by both residual blocks: optional conv_down on the block's
\* input, optional SE gate on the last convolution, add, relu.
BlockTail(self, x, last) ==
    Then(Block_residual(self, x), LAMBDA residual :
        Then(Block_gate(self, last), LAMBDA conv :
            Then(paddle_add(residual[1], conv[1]), LAMBDA y : F_relu(y[1]))))

BottleneckBlock_forward(self, x) ==
    LET conv1 == Attr(ConvBNLayer_forward(self.conv1, x), "conv1")
        conv2 == Then(conv1, LAMBDA o : Attr(ConvBNLayer_forward(self.conv2, o[1]), "conv2"))
        conv3 == Then(conv2, LAMBDA o : Attr(ConvBNLayer_forward(self.conv3, o[1]), "conv3"))
    IN  Then(conv3, LAMBDA o : BlockTail(self, x, o[1]))

(***************************************************************************)
(* BasicBlock                                                              *)
(***************************************************************************)
BasicBlock(num_channels, num_filters, stride, has_se, downsample) ==
    [cls |-> "BasicBlock",
     has_se |-> has_se,
     downsample |-> downsample,
     conv1 |-> ConvBNLayer(num_channels, num_filters, 3, stride, "relu"),
     conv2 |-> ConvBNLayer(num_filters, num_filters, 3, 1, "none"),
     conv_down |-> IF downsample
                   THEN ConvBNLayer(num_channels, num_filters * 4, 1, 1, "relu")
                   ELSE None,
     se |-> IF has_se THEN SELayer(num_filters, num_filters, 16) ELSE None]

BasicBlock_forward(self, input) ==
    LET conv1 == Attr(ConvBNLayer_forward(self.conv1, input), "conv1")
        conv2 == Then(conv1, LAMBDA o : Attr(ConvBNLayer_forward(self.conv2, o[1]), "conv2"))
    IN  Then(conv2, LAMBDA o : BlockTail(self, input, o[1]))

(***************************************************************************)
(* Branches.  Loop variables keep the source's 0-based values; sequences   *)
(* are indexed from 1, so list[i] of the source is list[i + 1] here.       *)
(***************************************************************************)
RECURSIVE Branches_row(_, _, _, _, _, _)
Branches_row(block_num, in_channels, out_channels, has_se, i, j) ==
    IF j = block_num THEN <<>>
    ELSE <<BasicBlock(IF j = 0 THEN in_channels[i + 1] ELSE out_channels[i + 1],
                      out_channels[i + 1], 1, has_se, FALSE)>>
         \o Branches_row(block_num, in_channels, out_channels, has_se, i, j + 1)

Branches(block_num, in_channels, out_channels, has_se) ==
    [cls |-> "Branches",
     basic_block_list |->
        [n \in 1..Len(out_channels) |->
            Branches_row(block_num, in_channels, out_channels, has_se, n - 1, 0)]]

RECURSIVE Branches_blocks(_, _, _, _)
Branches_blocks(basic_block_list, idx, j, r) ==
    IF ~r.ok \/ j = Len(basic_block_list) THEN r
    ELSE Branches_blocks(basic_block_list, idx, j + 1,
            After(r, WithIJ(BasicBlock_forward(basic_block_list[j + 1], r.out[1]),
                            idx, j)))

RECURSIVE Branches_loop(_, _, _, _)
Branches_loop(self, x, idx, acc) ==
    IF ~acc.ok \/ idx = Len(x) THEN acc
    ELSE IF idx >= Len(self.basic_block_list) THEN Raise(acc.trace)
    ELSE Branches_loop(self, x, idx + 1,
            Append_out(acc, Branches_blocks(self.basic_block_list[idx + 1], idx, 0,
                                            Ok(<<x[idx + 1]>>, <<>>))))

Branches_forward(self, x) ==
    WithPart(Branches_loop(self, x, 0, Ok(<<>>, <<>>)), "branches")

(***************************************************************************)
(* FuseLayers.  An element of residual_func_list is the ConvBNLayer with   *)
(* the (i, j, k) of the sublayer name it was added under.                  *)
(***************************************************************************)
Residual(i, j, k, conv) == [name |-> <<i, j, k>>, conv |-> conv]

RECURSIVE FuseLayers_k(_, _, _, _, _, _)
FuseLayers_k(in_channels, out_channels, i, j, k, pre_num_filters) ==
    IF k = i - j THEN <<>>
    ELSE IF k = i - j - 1
    THEN <<Residual(i, j, k, ConvBNLayer(pre_num_filters, out_channels[i + 1], 3, 2, "none"))>>
         \o FuseLayers_k(in_channels, out_channels, i, j, k + 1, out_channels[i + 1])
    ELSE <<Residual(i, j, k, ConvBNLayer(pre_num_filters, out_channels[j + 1], 3, 2, "relu"))>>
         \o FuseLayers_k(in_channels, out_channels, i, j, k + 1, out_channels[j + 1])

RECURSIVE FuseLayers_j(_, _, _, _)
FuseLayers_j(in_channels, out_channels, i, j) ==
    IF j = Len(in_channels) THEN <<>>
    ELSE (IF j > i
          THEN <<Residual(i, j, 0,
                          ConvBNLayer(in_channels[j + 1], out_channels[i + 1], 1, 1, "none"))>>
          ELSE IF j < i
          THEN FuseLayers_k(in_channels, out_channels, i, j, 0, in_channels[j + 1])
          ELSE <<>>)
         \o FuseLayers_j(in_channels, out_channels, i, j + 1)

RECURSIVE FuseLayers_i(_, _, _, _)
FuseLayers_i(in_channels, out_channels, actual_ch, i) ==
    IF i = actual_ch THEN <<>>
    ELSE FuseLayers_j(in_channels, out_channels, i, 0)
         \o FuseLayers_i(in_channels, out_channels, actual_ch, i + 1)

ActualCh(in_channels, multi_scale_output) ==
    IF multi_scale_output THEN Len(in_channels) ELSE 1

FuseLayers(in_channels, out_channels, multi_scale_output) ==
    [cls |-> "FuseLayers",
     actual_ch |-> ActualCh(in_channels, multi_scale_output),
     in_channels |-> in_channels,
     residual_func_list |->
        FuseLayers_i(in_channels, out_channels,
                     ActualCh(in_channels, multi_scale_output), 0)]

\* The loop state of FuseLayers.forward.
FuseState(ok, outs, trace, residual_func_idx, residual) ==
    [ok |-> ok, outs |-> outs, trace |-> trace,
     residual_func_idx |-> residual_func_idx, residual |-> residual]

\* r with its events marked with the loop variables, the index used and the
\* name of the sublayer called.
FuseNamed(r, i, j, k, residual_func_idx, name) ==
    [r EXCEPT !.trace = [n \in 1..Len(r.trace) |->
        [r.trace[n] EXCEPT !.i = i, !.j = j, !.k = k,
                           !.idx = residual_func_idx, !.name = name]]]

\* self.residual_func_list[residual_func_idx](y) with the loop's i, j, k.
FuseCall(self, residual_func_idx, y, i, j, k) ==
    IF residual_func_idx >= Len(self.residual_func_list)
    THEN FuseNamed(Raise(<<Ev("index", y, NoTensor)>>), i, j, k, residual_func_idx, <<>>)
    ELSE FuseNamed(ConvBNLayer_forward(self.residual_func_list[residual_func_idx + 1].conv, y),
                   i, j, k, residual_func_idx,
                   self.residual_func_list[residual_func_idx + 1].name)

\* y and residual_func_idx on the way through one branch j.
FuseBranch(y, residual_func_idx) ==
    [ok |-> TRUE, out |-> <<y>>, trace |-> <<>>, residual_func_idx |-> residual_func_idx]

\* The call without the increment of residual_func_idx.
FuseStep_stuck(c, r) ==
    [ok |-> r.ok, out |-> r.out, trace |-> c.trace \o r.trace,
     residual_func_idx |-> c.residual_func_idx]

\* y = self.residual_func_list[residual_func_idx](y); residual_func_idx += 1
FuseStep(c, r) ==
    [ok |-> r.ok, out |-> r.out, trace |-> c.trace \o r.trace,
     residual_func_idx |-> c.residual_func_idx + (IF r.ok THEN 1 ELSE 0)]

\* A tensor operation on y that leaves residual_func_idx alone.
FuseOp(c, r) ==
    [ok |-> r.ok, out |-> r.out, trace |-> c.trace \o r.trace,
     residual_func_idx |-> c.residual_func_idx]

RECURSIVE FuseLayers_down(_, _, _, _, _)
\* for k in range(i - j): y = self.residual_func_list[residual_func_idx](y)
FuseLayers_down(self, i, j, k, c) ==
    IF ~c.ok \/ k = i - j THEN c
    ELSE FuseLayers_down(self, i, j, k + 1,
            FuseStep(c, FuseCall(self, c.residual_func_idx, c.out[1], i, j, k)))

\* y = F.upsample(y, scale_factor=2**(j - i), mode="nearest")
FuseLayers_upsample(c, i, j) ==
    IF ~c.ok THEN c ELSE FuseOp(c, WithIJ(F_upsample(c.out[1], Pow2(j - i)), i, j))

\* residual = paddle.add(x=residual, y=y)
FuseSum(st, c, sum) ==
    FuseState(sum.ok, st.outs, st.trace \o c.trace \o sum.trace, c.residual_func_idx,
              IF sum.ok THEN sum.out[1] ELSE st.residual)

FuseLayers_add(st, c, i, j) ==
    IF ~c.ok
    THEN FuseState(FALSE, st.outs, st.trace \o c.trace, c.residual_func_idx, st.residual)
    ELSE FuseSum(st, c, WithIJ(paddle_add(st.residual, c.out[1]), i, j))

\* One pass of the body of the loop over j.
FuseLayers_body(self, input, i, j, st) ==
    IF j > i
    THEN IF j >= Len(input)
         THEN [st EXCEPT !.ok = FALSE]
         ELSE FuseLayers_add(st,
                 FuseLayers_upsample(
                     FuseStep(FuseBranch(input[j + 1], st.residual_func_idx),
                              FuseCall(self, st.residual_func_idx, input[j + 1], i, j, 0)),
                     i, j),
                 i, j)
    ELSE IF j < i
    THEN FuseLayers_add(st,
            FuseLayers_down(self, i, j, 0,
                            FuseBranch(input[j + 1], st.residual_func_idx)),
            i, j)
    ELSE st

RECURSIVE FuseLayers_inner(_, _, _, _, _)
FuseLayers_inner(self, input, i, j, st) ==
    IF ~st.ok \/ j = Len(self.in_channels) THEN st
    ELSE FuseLayers_inner(self, input, i, j + 1, FuseLayers_body(self, input, i, j, st))

FuseAppend(st, r) ==
    FuseState(TRUE, st.outs \o r.out, st.trace \o r.trace, st.residual_func_idx,
              st.residual)

\* residual = F.relu(residual); outs.append(residual)
FuseLayers_relu(st, i) ==
    IF ~st.ok THEN st ELSE FuseAppend(st, WithIJ(F_relu(st.residual), i, i))

RECURSIVE FuseLayers_outer(_, _, _, _)
FuseLayers_outer(self, input, i, st) ==
    IF ~st.ok \/ i = self.actual_ch THEN st
    ELSE IF i >= Len(input) THEN [st EXCEPT !.ok = FALSE]
    ELSE FuseLayers_outer(self, input, i + 1,
            FuseLayers_relu(
                FuseLayers_inner(self, input, i, 0, [st EXCEPT !.residual = input[i + 1]]),
                i))

\* The loop state when FuseLayers.forward returns or raises.
FuseLayers_run(self, input) ==
    FuseLayers_outer(self, input, 0, FuseState(TRUE, <<>>, <<>>, 0, NoTensor))

FuseResult(st) ==
    [ok |-> st.ok, out |-> IF st.ok THEN st.outs ELSE <<>>,
     trace |-> TagPart(st.trace, "fuse")]

FuseLayers_forward(self, input) == FuseResult(FuseLayers_run(self, input))

(***************************************************************************)
(* HighResolutionModule and Stage                                          *)
(***************************************************************************)
HighResolutionModule(num_channels, num_filters, has_se, multi_scale_output) ==
    [cls |-> "HighResolutionModule",
     branches_func |-> Branches(4, num_channels, num_filters, has_se),
     fuse_func |-> FuseLayers(num_filters, num_filters, multi_scale_output)]

HighResolutionModule_forward(self, input) ==
    Then(Branches_forward(self.branches_func, input),
         LAMBDA o : FuseLayers_forward(self.fuse_func, o))

Stage(num_channels, num_modules, num_filters, has_se, multi_scale_output) ==
    [cls |-> "Stage",
     num_modules |-> num_modules,
     stage_func_list |->
        [n \in 1..num_modules |->
            IF n - 1 = num_modules - 1 /\ ~multi_scale_output
            THEN HighResolutionModule(num_channels, num_filters, has_se, FALSE)
            ELSE HighResolutionModule(num_channels, num_filters, has_se, TRUE)]]

RECURSIVE Stage_loop(_, _, _)
Stage_loop(self, idx, out) ==
    IF ~out.ok \/ idx = self.num_modules THEN out
    ELSE Stage_loop(self, idx + 1,
            After(out, WithM(HighResolutionModule_forward(self.stage_func_list[idx + 1],
                                                          out.out), idx)))

Stage_forward(self, input) == Stage_loop(self, 0, Ok(input, <<>>))

(***************************************************************************)
(* TransitionLayer                                                         *)
(***************************************************************************)
\* A TransitionLayer whose new branch is built for the first input's
\* channels, in_channels[0], instead of the last's.
TransitionLayer_first(in_channels, out_channels) ==
    [cls |-> "TransitionLayer",
     conv_bn_func_list |->
        [n \in 1..Len(out_channels) |->
            IF n - 1 < Len(in_channels)
            THEN IF in_channels[n] # out_channels[n]
                 THEN ConvBNLayer(in_channels[n], out_channels[n], 3, 1, "relu")
                 ELSE None
            ELSE ConvBNLayer(in_channels[1], out_channels[n], 3, 2, "relu")]]

TransitionLayer(in_channels, out_channels) ==
    [cls |-> "TransitionLayer",
     conv_bn_func_list |->
        [n \in 1..Len(out_channels) |->
            IF n - 1 < Len(in_channels)
            THEN IF in_channels[n] # out_channels[n]
                 THEN ConvBNLayer(in_channels[n], out_channels[n], 3, 1, "relu")
                 ELSE None
            ELSE ConvBNLayer(in_channels[Len(in_channels)], out_channels[n], 3, 2, "relu")]]

\* The body of the loop of forward.
TransitionLayer_body(conv_bn_func, x, idx) ==
    IF conv_bn_func = None
    THEN IF idx < Len(x) THEN Ok(<<x[idx + 1]>>, <<>>) ELSE Raise(<<>>)
    ELSE IF Len(x) = 0 THEN Raise(<<>>)
    ELSE IF idx < Len(x)
    THEN ConvBNLayer_forward(conv_bn_func, x[idx + 1])
    ELSE ConvBNLayer_forward(conv_bn_func, x[Len(x)])

RECURSIVE TransitionLayer_loop(_, _, _, _)
TransitionLayer_loop(self, x, idx, acc) ==
    IF ~acc.ok \/ idx = Len(self.conv_bn_func_list) THEN acc
    ELSE TransitionLayer_loop(self, x, idx + 1,
            Append_out(acc, WithI(TransitionLayer_body(self.conv_bn_func_list[idx + 1],
                                                       x, idx), idx)))

TransitionLayer_forward(self, x) == TransitionLayer_loop(self, x, 0, Ok(<<>>, <<>>))

(***************************************************************************)
(* LastClsOut                                                              *)
(***************************************************************************)
LastClsOut(num_channel_list, has_se, num_filters_list) ==
    [cls |-> "LastClsOut",
     func_list |->
        [n \in 1..Len(num_channel_list) |->
            BottleneckBlock(num_channel_list[n], num_filters_list[n], has_se, 1, TRUE)]]

RECURSIVE LastClsOut_loop(_, _, _, _)
LastClsOut_loop(self, inputs, idx, acc) ==
    IF ~acc.ok \/ idx = Len(inputs) THEN acc
    ELSE IF idx >= Len(self.func_list) THEN Raise(acc.trace)
    ELSE LastClsOut_loop(self, inputs, idx + 1,
            Append_out(acc, WithI(BottleneckBlock_forward(self.func_list[idx + 1],
                                                          inputs[idx + 1]), idx)))

LastClsOut_forward(self, inputs) == LastClsOut_loop(self, inputs, 0, Ok(<<>>, <<>>))

(***************************************************************************)
(* Layer1.  The constructor builds a dict from sublayer name to block and  *)
(* gives nn.Sequential the dict unpacked with *: iterating a dict yields   *)
(* its keys.  A dict is a sequence of key/value items in insertion order.  *)
(***************************************************************************)
RECURSIVE DictSet(_, _, _)
DictSet(d, key, value) ==
    IF d = <<>> THEN <<[key |-> key, value |-> value]>>
    ELSE IF Head(d).key = key THEN <<[key |-> key, value |-> value]>> \o Tail(d)
    ELSE <<Head(d)>> \o DictSet(Tail(d), key, value)

RECURSIVE Layer1_dict(_, _, _, _, _)
Layer1_dict(num_channels, has_se, name, i, d) ==
    IF i = 4 THEN d
    ELSE Layer1_dict(num_channels, has_se, name, i + 1,
            DictSet(d, Str("bb_" \o name, i + 1),
                    BottleneckBlock(IF i = 0 THEN num_channels ELSE 256, 64, has_se, 1,
                                    i = 0)))

\* *d: the positional arguments an unpacked dict gives.
Unpack(d) == [n \in 1..Len(d) |-> d[n].key]

Values(d) == [n \in 1..Len(d) |-> d[n].value]

IsLayer(x) == x.cls \notin {"str", "None"}

\* nn.Sequential(*layers): add_sublayer(str(idx), layer) for every argument.
\* add_sublayer asserts that its argument is a Layer or None; the assert
\* statement is executed when __debug__ is true (python without -O).
Sequential(layers, debug) ==
    IF debug /\ \E n \in 1..Len(layers) : ~IsLayer(layers[n]) /\ layers[n] # None
    THEN [raised |-> TRUE, obj |-> None]
    ELSE [raised |-> FALSE, obj |-> [cls |-> "Sequential", sub_layers |-> layers]]

\* [raised, obj, made]: whether the constructor raised, the object, and the
\* residual blocks instantiated on the way.
Layer1(num_channels, has_se, name, debug) ==
    LET d == Layer1_dict(num_channels, has_se, name, 0, <<>>)
        seq == Sequential(Unpack(d), debug)
    IN  [raised |-> seq.raised,
         obj |-> IF seq.raised THEN None
                 ELSE [cls |-> "Layer1", bottleneck_block_list |-> seq.obj],
         made |-> Values(d)]

\* block_func(y) for an element of bottleneck_block_list
Layer1_call(block_func, y) ==
    IF block_func.cls = "BottleneckBlock" THEN BottleneckBlock_forward(block_func, y)
    ELSE Raise(<<Ev("not callable", y, NoTensor)>>)

RECURSIVE Layer1_loop(_, _, _)
Layer1_loop(self, n, y) ==
    IF ~y.ok \/ n = Len(self.bottleneck_block_list.sub_layers) THEN y
    ELSE Layer1_loop(self, n + 1,
            After(y, WithI(Layer1_call(self.bottleneck_block_list.sub_layers[n + 1],
                                       y.out[1]), n)))

Layer1_forward(self, x) == Layer1_loop(self, 0, Ok(<<x>>, <<>>))

(***************************************************************************)
(* HRNet                                                                   *)
(***************************************************************************)
Widths == {18, 30, 32, 40, 44, 48, 60, 64}

\* self.channels
channels ==
    [width \in Widths |->
        CASE width = 18 -> <<<<18, 36>>, <<18, 36, 72>>, <<18, 36, 72, 144>>>>
          [] width = 30 -> <<<<30, 60>>, <<30, 60, 120>>, <<30, 60, 120, 240>>>>
          [] width = 32 -> <<<<32, 64>>, <<32, 64, 128>>, <<32, 64, 128, 256>>>>
          [] width = 40 -> <<<<40, 80>>, <<40, 80, 160>>, <<40, 80, 160, 320>>>>
          [] width = 44 -> <<<<44, 88>>, <<44, 88, 176>>, <<44, 88, 176, 352>>>>
          [] width = 48 -> <<<<48, 96>>, <<48, 96, 192>>, <<48, 96, 192, 384>>>>
          [] width = 60 -> <<<<60, 120>>, <<60, 120, 240>>, <<60, 120, 240, 480>>>>
          [] width = 64 -> <<<<64, 128>>, <<64, 128, 256>>, <<64, 128, 256, 512>>>>]

num_filters_list == <<32, 64, 128, 256>>

last_num_filters == <<256, 512, 1024>>

\* The residual blocks a layer holds, in construction order.
RECURSIVE Flatten(_)
Flatten(seqs) == IF seqs = <<>> THEN <<>> ELSE Head(seqs) \o Flatten(Tail(seqs))

BlocksOfStage(stage) ==
    Flatten([n \in 1..Len(stage.stage_func_list) |->
                Flatten(stage.stage_func_list[n].branches_func.basic_block_list)])

Owned(owner, blocks) ==
    [n \in 1..Len(blocks) |-> [owner |-> owner, block |-> blocks[n]]]

\* [raised, obj, made] as for Layer1; made names the attribute that owns a block.
HRNet(width, has_se, class_dim, debug) ==
    LET channels_2 == channels[width][1]
        channels_3 == channels[width][2]
        channels_4 == channels[width][3]
        la1 == Layer1(64, has_se, "layer2", debug)
        st2 == Stage(channels_2, 1, channels_2, has_se, TRUE)
        st3 == Stage(channels_3, 4, channels_3, has_se, TRUE)
        st4 == Stage(channels_4, 3, channels_4, has_se, TRUE)
        last_cls == LastClsOut(channels_4, has_se, num_filters_list)
    IN  IF la1.raised
        THEN [raised |-> TRUE, obj |-> None, made |-> Owned("la1", la1.made)]
        ELSE [raised |-> FALSE,
              obj |-> [cls |-> "HRNet",
                       width |-> width,
                       has_se |-> has_se,
                       class_dim |-> class_dim,
                       conv_layer1_1 |-> ConvBNLayer(3, 64, 3, 2, "relu"),
                       conv_layer1_2 |-> ConvBNLayer(64, 64, 3, 2, "relu"),
                       la1 |-> la1.obj,
                       tr1 |-> TransitionLayer(<<256>>, channels_2),
                       st2 |-> st2,
                       tr2 |-> TransitionLayer(channels_2, channels_3),
                       st3 |-> st3,
                       tr3 |-> TransitionLayer(channels_3, channels_4),
                       st4 |-> st4,
                       last_cls |-> last_cls,
                       cls_head_conv_list |->
                          [n \in 1..3 |->
                              ConvBNLayer(num_filters_list[n] * 4, last_num_filters[n],
                                          3, 2, "relu")],
                       conv_last |-> ConvBNLayer(1024, 2048, 1, 1, "relu"),
                       out |-> [in_features |-> 2048, out_features |-> class_dim]],
              made |-> Owned("la1", la1.made)
                       \o Owned("st2", BlocksOfStage(st2))
                       \o Owned("st3", BlocksOfStage(st3))
                       \o Owned("st4", BlocksOfStage(st4))
                       \o Owned("last_cls", last_cls.func_list)]

\* r with its events marked as made by the attribute `top` of HRNet.
Top(r, top) == [r EXCEPT !.trace = TagTop(r.trace, top)]

RECURSIVE HRNet_head(_, _, _, _)
\* for idx in range(3): y = paddle.add(last_cls[idx + 1], cls_head_conv_list[idx](y))
HRNet_head(self, last_cls, idx, y) ==
    IF ~y.ok \/ idx = 3 THEN y
    ELSE IF idx + 1 >= Len(last_cls) THEN Raise(y.trace)
    ELSE HRNet_head(self, last_cls, idx + 1,
            After(y, WithI(Top(Then(ConvBNLayer_forward(self.cls_head_conv_list[idx + 1],
                                                        y.out[1]),
                                    LAMBDA o : paddle_add(last_cls[idx + 2], o[1])),
                               "cls_head_add"), idx)))

\* self.pool2d_avg(y)
HRNet_pool(y) ==
    Ok(<<Tensor(<<y.shape[1], y.shape[2], 1, 1>>, y.v, "pool")>>,
       <<Ev("pool", y, Tensor(<<y.shape[1], y.shape[2], 1, 1>>, y.v, "pool"))>>)

Product(shape) == shape[1] * shape[2] * shape[3] * shape[4]

\* paddle.reshape(y, shape=[-1, y.shape[1]])
HRNet_reshape(y) ==
    Ok(<<Tensor(<<Product(y.shape) \div y.shape[2], y.shape[2]>>, y.v, "reshape")>>,
       <<Ev("reshape", y,
            Tensor(<<Product(y.shape) \div y.shape[2], y.shape[2]>>, y.v, "reshape"))>>)

\* self.out(y)
HRNet_out(self, y) ==
    After(Ok(<<>>, <<Ev("linear", y, NoTensor)>>),
          Linear(self.out.in_features, self.out.out_features, y))

\* conv_last, pool2d_avg, reshape and the final Linear.
HRNet_tail(self, x) ==
    Then(Top(ConvBNLayer_forward(self.conv_last, x), "conv_last"), LAMBDA c :
        Then(Top(HRNet_pool(c[1]), "pool2d_avg"), LAMBDA p :
            Then(Top(HRNet_reshape(p[1]), "reshape"), LAMBDA f :
                Top(HRNet_out(self, f[1]), "out"))))

HRNet_forward(self, input) ==
    LET conv1 == Top(ConvBNLayer_forward(self.conv_layer1_1, input), "conv_layer1_1")
        conv2 == Then(conv1, LAMBDA o :
                    Top(ConvBNLayer_forward(self.conv_layer1_2, o[1]), "conv_layer1_2"))
        la1 == Then(conv2, LAMBDA o : Top(Layer1_forward(self.la1, o[1]), "la1"))
        tr1 == Then(la1, LAMBDA o : Top(TransitionLayer_forward(self.tr1, <<o[1]>>), "tr1"))
        st2 == Then(tr1, LAMBDA o : Top(Stage_forward(self.st2, o), "st2"))
        tr2 == Then(st2, LAMBDA o : Top(TransitionLayer_forward(self.tr2, o), "tr2"))
        st3 == Then(tr2, LAMBDA o : Top(Stage_forward(self.st3, o), "st3"))
        tr3 == Then(st3, LAMBDA o : Top(TransitionLayer_forward(self.tr3, o), "tr3"))
        st4 == Then(tr3, LAMBDA o : Top(Stage_forward(self.st4, o), "st4"))
        last_cls == Then(st4, LAMBDA o : Top(LastClsOut_forward(self.last_cls, o), "last_cls"))
        y == Then(last_cls, LAMBDA o :
                IF Len(o) = 0 THEN Raise(<<>>)
                ELSE HRNet_head(self, o, 0, Ok(<<o[1]>>, <<>>)))
    IN  Then(y, LAMBDA o : HRNet_tail(self, o[1]))

\* The exported factories: __all__ and the sixteen functions.  A name is
\* prefix_W{w}_C.
Name(prefix, w) == [prefix |-> prefix, w |-> w]

all == {Name(prefix, w) : prefix \in {"HRNet", "SE_HRNet"}, w \in Widths}

\* The width and has_se each factory passes to HRNet.
factory_args ==
    [name \in all |->
        CASE name = Name("HRNet", 18) -> [width |-> 18, has_se |-> FALSE]
          [] name = Name("HRNet", 30) -> [width |-> 30, has_se |-> FALSE]
          [] name = Name("HRNet", 32) -> [width |-> 32, has_se |-> FALSE]
          [] name = Name("HRNet", 40) -> [width |-> 40, has_se |-> FALSE]
          [] name = Name("HRNet", 44) -> [width |-> 44, has_se |-> FALSE]
          [] name = Name("HRNet", 48) -> [width |-> 48, has_se |-> FALSE]
          [] name = Name("HRNet", 60) -> [width |-> 60, has_se |-> FALSE]
          [] name = Name("HRNet", 64) -> [width |-> 64, has_se |-> FALSE]
          [] name = Name("SE_HRNet", 18) -> [width |-> 18, has_se |-> TRUE]
          [] name = Name("SE_HRNet", 30) -> [width |-> 30, has_se |-> TRUE]
          [] name = Name("SE_HRNet", 32) -> [width |-> 32, has_se |-> TRUE]
          [] name = Name("SE_HRNet", 40) -> [width |-> 40, has_se |-> TRUE]
          [] name = Name("SE_HRNet", 44) -> [width |-> 44, has_se |-> TRUE]
          [] name = Name("SE_HRNet", 48) -> [width |-> 48, has_se |-> TRUE]
          [] name = Name("SE_HRNet", 60) -> [width |-> 60, has_se |-> TRUE]
          [] name = Name("SE_HRNet", 64) -> [width |-> 64, has_se |-> TRUE]]

\* model = HRNet(width=..., [has_se=True,] **args); return model
Factory(name, class_dim, debug) ==
    HRNet(factory_args[name].width, factory_args[name].has_se, class_dim, debug)

(***************************************************************************)
(* The program: one object is constructed, through an exported factory or  *)
(* through a layer class directly, and forward passes are made on it.      *)
(*   pc     "idle", then "built" or "raised" (the constructor raised)      *)
(*   call   the constructor call; call.debug is python's __debug__ (assert *)
(*          statements are executed) where the constructor depends on it   *)
(*   obj    the object constructed                                         *)
(*   made   the residual blocks the constructor call instantiated          *)
(*   runs   the forward passes made: input x and result r                  *)
(***************************************************************************)
VARIABLES pc, call, obj, made, runs

vars == <<pc, call, obj, made, runs>>

ClassDims == (1..MaxClassDim) \cup {1000}

ImageSizes == {32 * m : m \in 1..MaxImage} \cup {100, 224}

Sizes == 1..MaxSize

\* A feature map given to a component is square or one column wide, in a
\* batch of one.
Widths_of(h) == {1, h}

\* An image is square or 32 columns wide.
ImageWidths(h) == {32, h}

Batches == 1..MaxBatch

\* num_modules_2, num_modules_3, num_modules_4
num_modules == <<1, 4, 3>>

CeilDiv(a, b) == (a + b - 1) \div b

\* One tensor per channel count, tensor i at 1/2^i of the size of tensor 0.
Pyramid(chs, n, h, w, v) ==
    [i \in 1..Len(chs) |->
        Tensor(<<n, chs[i], CeilDiv(h, Pow2(i - 1)), CeilDiv(w, Pow2(i - 1))>>, v, "input")]

Shapes(x) == [i \in 1..Len(x) |-> x[i].shape]

Init ==
    /\ pc = "idle"
    /\ call = None
    /\ obj = None
    /\ made = <<>>
    /\ runs = <<>>

Built(c, o, blocks) ==
    /\ pc = "idle"
    /\ pc' = "built"
    /\ call' = c
    /\ obj' = o
    /\ made' = blocks
    /\ UNCHANGED runs

MayRaise(c, r) ==
    /\ pc = "idle"
    /\ pc' = IF r.raised THEN "raised" ELSE "built"
    /\ call' = c
    /\ obj' = r.obj
    /\ made' = r.made
    /\ UNCHANGED runs

New_HRNet ==
    /\ pc = "idle"
    /\ \E name \in all, class_dim \in ClassDims, debug \in BOOLEAN :
        MayRaise([cls |-> "HRNet", name |-> name, class_dim |-> class_dim,
                  debug |-> debug],
                 Factory(name, class_dim, debug))

New_Layer1 ==
    /\ pc = "idle"
    /\ \E has_se \in BOOLEAN, debug \in BOOLEAN :
        MayRaise([cls |-> "Layer1", num_channels |-> 64, has_se |-> has_se,
                  debug |-> debug],
                 [Layer1(64, has_se, "layer2", debug) EXCEPT
                     !.made = Owned("self", @)])

New_Stage ==
    /\ pc = "idle"
    /\ \E width \in Widths, k \in 1..3, has_se \in BOOLEAN, multi_scale_output \in BOOLEAN :
        LET o == Stage(channels[width][k], num_modules[k], channels[width][k], has_se,
                       multi_scale_output)
        IN  Built([cls |-> "Stage", num_channels |-> channels[width][k],
                   has_se |-> has_se, multi_scale_output |-> multi_scale_output],
                  o, Owned("self", BlocksOfStage(o)))

New_Branches ==
    /\ pc = "idle"
    /\ \E width \in Widths, k \in 1..3, has_se \in BOOLEAN :
        LET o == Branches(4, channels[width][k], channels[width][k], has_se)
        IN  Built([cls |-> "Branches", num_channels |-> channels[width][k],
                   has_se |-> has_se],
                  o, Owned("self", Flatten(o.basic_block_list)))

New_FuseLayers ==
    /\ pc = "idle"
    /\ \E width \in Widths, k \in 1..3, multi_scale_output \in BOOLEAN :
        Built([cls |-> "FuseLayers", num_channels |-> channels[width][k],
               multi_scale_output |-> multi_scale_output],
              FuseLayers(channels[width][k], channels[width][k], multi_scale_output),
              <<>>)

New_TransitionLayer ==
    /\ pc = "idle"
    /\ \E width \in Widths, k \in 1..3 :
        LET in_channels == IF k = 1 THEN <<256>> ELSE channels[width][k - 1]
        IN  Built([cls |-> "TransitionLayer", num_channels |-> in_channels,
                   out_channels |-> channels[width][k]],
                  TransitionLayer(in_channels, channels[width][k]), <<>>)

New_LastClsOut ==
    /\ pc = "idle"
    /\ \E width \in Widths, has_se \in BOOLEAN :
        LET o == LastClsOut(channels[width][3], has_se, num_filters_list)
        IN  Built([cls |-> "LastClsOut", num_channels |-> channels[width][3],
                   has_se |-> has_se],
                  o, Owned("self", o.func_list))

\* A forward pass of obj on x; the passes of one object are made on inputs
\* of one shape.
Pass(x, r) ==
    /\ pc = "built"
    /\ Len(runs) < MaxPasses
    /\ runs # <<>> => Shapes(runs[1].x) = Shapes(x)
    /\ runs' = Append(runs, [x |-> x, r |-> r])
    /\ UNCHANGED <<pc, call, obj, made>>

Call_HRNet ==
    /\ call.cls = "HRNet"
    /\ \E n \in Batches, h \in ImageSizes, v \in Data : \E w \in ImageWidths(h) :
          LET x == Tensor(<<n, 3, h, w>>, v, "input")
          IN  Pass(<<x>>, HRNet_forward(obj, x))

Call_Layer1 ==
    /\ call.cls = "Layer1"
    /\ \E h \in Sizes, v \in Data : \E w \in Widths_of(h) :
          LET x == Tensor(<<1, call.num_channels, h, w>>, v, "input")
          IN  Pass(<<x>>, Layer1_forward(obj, x))

Call_Stage ==
    /\ call.cls = "Stage"
    /\ \E h \in Sizes, v \in Data : \E w \in Widths_of(h) :
          LET x == Pyramid(call.num_channels, 1, h, w, v)
          IN  Pass(x, Stage_forward(obj, x))

Call_Branches ==
    /\ call.cls = "Branches"
    /\ \E h \in Sizes, v \in Data : \E w \in Widths_of(h) :
          LET x == Pyramid(call.num_channels, 1, h, w, v)
          IN  Pass(x, Branches_forward(obj, x))

Call_FuseLayers ==
    /\ call.cls = "FuseLayers"
    /\ \E h \in Sizes, v \in Data : \E w \in Widths_of(h) :
          LET x == Pyramid(call.num_channels, 1, h, w, v)
          IN  Pass(x, FuseLayers_forward(obj, x))

Call_TransitionLayer ==
    /\ call.cls = "TransitionLayer"
    /\ \E h \in Sizes, v \in Data : \E w \in Widths_of(h) :
          LET x == Pyramid(call.num_channels, 1, h, w, v)
          IN  Pass(x, TransitionLayer_forward(obj, x))

Call_LastClsOut ==
    /\ call.cls = "LastClsOut"
    /\ \E h \in Sizes, v \in Data : \E w \in Widths_of(h) :
          LET x == Pyramid(call.num_channels, 1, h, w, v)
          IN  Pass(x, LastClsOut_forward(obj, x))

Next ==
    \/ New_HRNet
    \/ New_Layer1
    \/ New_Stage
    \/ New_Branches
    \/ New_FuseLayers
    \/ New_TransitionLayer
    \/ New_LastClsOut
    \/ Call_HRNet
    \/ Call_Layer1
    \/ Call_Stage
    \/ Call_Branches
    \/ Call_FuseLayers
    \/ Call_TransitionLayer
    \/ Call_LastClsOut

Spec == Init /\ [][Next]_vars

(***************************************************************************)
(* The claims.                                                             *)
(***************************************************************************)
Events(n) == runs[n].r.trace

Passes == 1..Len(runs)

\* The channel counts of the branches a stage was built with: one per
\* branch of each of its modules.
BranchChannels(module) ==
    [b \in 1..Len(module.branches_func.basic_block_list) |->
        module.branches_func.basic_block_list[b][1].conv1.out_channels]

StageBuiltFor(stage, k, w) ==
    \A n \in 1..Len(stage.stage_func_list) :
        BranchChannels(stage.stage_func_list[n]) = [i \in 1..k |-> w * Pow2(i - 1)]

\* C1: each of the 16 exported factories builds an HRNet whose width is the
\* w of its name and whose has_se is true exactly when the name starts with
\* SE_, with stage k (k = 2, 3, 4) built with exactly k branches of
\* w * 2^i channels, i = 0..k-1.  (Fails: under the default interpreter the
\* factory raises in Layer1 and builds nothing.)
C1_FactoryBuilds ==
    call.cls = "HRNet" =>
        /\ pc = "built"
        /\ obj.width = call.name.w
        /\ obj.has_se = (call.name.prefix = "SE_HRNet")
        /\ StageBuiltFor(obj.st2, 2, call.name.w)
        /\ StageBuiltFor(obj.st3, 3, call.name.w)
        /\ StageBuiltFor(obj.st4, 4, call.name.w)

\* The attributes of HRNet in the order their events appear in a trace.
RECURSIVE TopOrder(_)
TopOrder(trace) ==
    IF trace = <<>> THEN <<>>
    ELSE IF Len(trace) > 1 /\ trace[1].top = trace[2].top THEN TopOrder(Tail(trace))
    ELSE <<trace[1].top>> \o TopOrder(Tail(trace))

ForwardOrder ==
    <<"conv_layer1_1", "conv_layer1_2", "la1", "tr1", "st2", "tr2", "st3", "tr3", "st4",
      "last_cls", "cls_head_add", "conv_last", "pool2d_avg", "reshape", "out">>

\* The modules of a stage in the order the trace applies them.
RECURSIVE ModuleOrder(_, _)
ModuleOrder(trace, top) ==
    IF trace = <<>> THEN <<>>
    ELSE IF trace[1].top # top THEN ModuleOrder(Tail(trace), top)
    ELSE IF Len(trace) > 1 /\ trace[2].top = top /\ trace[1].m = trace[2].m
    THEN ModuleOrder(Tail(trace), top)
    ELSE <<trace[1].m>> \o ModuleOrder(Tail(trace), top)

\* Within one module: every event of the branches precedes every event of
\* the fuse layers, and every branch applies 4 blocks in order.
BranchesBeforeFuse(trace) ==
    \A a, b \in 1..Len(trace) :
        (/\ trace[a].top = trace[b].top
         /\ trace[a].m = trace[b].m
         /\ trace[a].part = "branches"
         /\ trace[b].part = "fuse") => a < b

FourBlocksInOrder(trace) ==
    \A a \in 1..Len(trace) :
        trace[a].part = "branches" =>
            /\ trace[a].j \in 0..3
            /\ \A b \in 1..Len(trace) :
                  (/\ trace[b].part = "branches"
                   /\ trace[b].top = trace[a].top
                   /\ trace[b].m = trace[a].m
                   /\ trace[b].i = trace[a].i
                   /\ trace[b].j > trace[a].j) => a < b

Multiple32(x) == x.shape[3] % 32 = 0 /\ x.shape[4] % 32 = 0

\* C2: in every variant a forward pass applies stem, Layer1, tr1, st2, tr2,
\* st3, tr3, st4 and the head in that order; st2, st3, st4 apply 1, 4 and 3
\* modules in construction order; every module runs its Branches (4 blocks
\* per branch, in order) before its FuseLayers.  (Fails: no variant is built
\* under the default interpreter, and a pass on one built with -O stops in
\* Layer1.)
C2_ForwardOrder ==
    call.cls = "HRNet" =>
        /\ pc = "built"
        /\ \A n \in Passes :
              Multiple32(runs[n].x[1]) =>
                 /\ TopOrder(Events(n)) = ForwardOrder
                 /\ ModuleOrder(Events(n), "st2") = <<0>>
                 /\ ModuleOrder(Events(n), "st3") = <<0, 1, 2, 3>>
                 /\ ModuleOrder(Events(n), "st4") = <<0, 1, 2>>
                 /\ BranchesBeforeFuse(Events(n))
                 /\ FourBlocksInOrder(Events(n))

Bottlenecks == {n \in 1..Len(made) : made[n].block.cls = "BottleneckBlock"}

\* A BottleneckBlock outputs 4 * num_filters channels and both operands of
\* its addition have that many.
BottleneckAdds(b) ==
    /\ b.conv3.out_channels = 4 * b.conv1.out_channels
    /\ b.downsample =>
          /\ b.conv_down.in_channels = b.conv1.in_channels
          /\ b.conv_down.out_channels = 4 * b.conv1.out_channels
    /\ ~b.downsample => b.conv1.in_channels = 4 * b.conv1.out_channels

Channels(out) == [n \in 1..Len(out) |-> out[n].shape[2]]

\* C3: every BottleneckBlock instantiated by HRNet outputs 4 * num_filters
\* channels with both operands of its addition at that count; consequently
\* Layer1 emits 256 channels and LastClsOut emits 128, 256, 512, 1024.
\* (Fails: Layer1 is never constructed under the default interpreter, and
\* one constructed with -O raises in forward and emits nothing.)
C3_BottleneckChannels ==
    /\ \A n \in Bottlenecks : BottleneckAdds(made[n].block)
    /\ call.cls = "LastClsOut" =>
          \A n \in Passes : runs[n].r.ok /\ Channels(runs[n].r.out) = <<128, 256, 512, 1024>>
    /\ call.cls = "Layer1" =>
          /\ pc = "built"
          /\ \A n \in Passes : runs[n].r.ok /\ Channels(runs[n].r.out) = <<256>>
    /\ call.cls = "HRNet" =>
          /\ pc = "built"
          /\ \A n \in Passes :
                \E e \in 1..Len(Events(n)) :
                    Events(n)[e].top = "tr1" /\ Events(n)[e].a[2] = 256

\* The SE layers the constructor call made, one per block with has_se.
Gates == {n \in 1..Len(made) : made[n].block.se # None}

\* C4: every SELayer built in an SE variant uses reduction ratio 16: its
\* hidden width is floor(C / 16) for its channel count C and is at least 1,
\* and the layer's output has exactly the shape of its input.
C4_SEReduction ==
    /\ \A n \in Gates :
          LET se == made[n].block.se
              med_ch == se.squeeze.out_features
          IN  /\ se.reduction_ratio = 16
              /\ se.squeeze.in_features = se.num_channels
              /\ 16 * med_ch <= se.num_channels
              /\ se.num_channels < 16 * (med_ch + 1)
              /\ med_ch >= 1
              /\ se.excitation.in_features = med_ch
              /\ se.excitation.out_features = se.num_channels
    /\ \A n \in Passes :
          \A e \in 1..Len(Events(n)) :
              Events(n)[e].op = "se" => Events(n)[e].b = Events(n)[e].a

\* An SE stage of width 18 has been built, so an SELayer of 18 channels
\* exists, and a pass has run its gates.
C4_Witness ==
    /\ call.cls = "Stage"
    /\ call.has_se
    /\ \E n \in Gates : made[n].block.se.num_channels = 18
    /\ \E n \in Passes :
          /\ runs[n].r.ok
          /\ \E e \in 1..Len(Events(n)) :
                Events(n)[e].op = "se" /\ Events(n)[e].a[2] = 18

\* The has_se the constructor call was given.
HasSE ==
    IF call.cls = "HRNet" THEN call.name.prefix = "SE_HRNet"
    ELSE IF call.cls \in {"Layer1", "Stage", "Branches", "LastClsOut"} THEN call.has_se
    ELSE FALSE

\* The additions residual blocks make (the fuse layers and the head add too).
BlockAdd(e) == e.op = "add" /\ e.part # "fuse" /\ e.top # "cls_head_add"

LastConv(e) == e.op \in {"conv1", "conv2", "conv3"}

\* In trace, the addition at position a takes the gated output of the
\* block's last convolution: the gate runs right before the addition, on
\* the output of the latest convolution of the block's main path.
GatedAdd(trace, a) ==
    /\ a > 1
    /\ trace[a].fb = "se"
    /\ trace[a - 1].op = "se"
    /\ \E c \in 1..(a - 2) :
          /\ LastConv(trace[c])
          /\ trace[a - 1].fa = trace[c].op
          /\ \A d \in (c + 1)..(a - 2) : ~LastConv(trace[d])

\* C5: the has_se flag reaches every residual block: in an SE variant every
\* block holds an SE layer and applies it to its last convolution's output
\* before the residual addition; in a non-SE variant no block constructs or
\* applies one.
C5_SEReachesBlocks ==
    /\ \A n \in 1..Len(made) :
          /\ made[n].block.has_se = HasSE
          /\ (made[n].block.se # None) = HasSE
    /\ \A n \in Passes :
          \A e \in 1..Len(Events(n)) :
              /\ BlockAdd(Events(n)[e]) /\ HasSE => GatedAdd(Events(n), e)
              /\ ~HasSE => Events(n)[e].op # "se" /\ Events(n)[e].fb # "se"

\* An SE stage of four branches has run to the end: every block of every
\* branch of every module has gated its addition.
C5_Witness ==
    /\ call.cls = "Stage"
    /\ call.has_se
    /\ Len(call.num_channels) = 4
    /\ \E n \in Passes :
          /\ runs[n].r.ok
          /\ \E e \in 1..Len(Events(n)) :
                BlockAdd(Events(n)[e]) /\ Events(n)[e].m = 2 /\ Events(n)[e].i = 3

\* The positions of trace whose event satisfies P.
Where(trace, P(_)) == {e \in 1..Len(trace) : P(trace[e])}

\* The sublayers __init__ constructed for output i and input j.
Constructed(self, i, j) ==
    {n \in 1..Len(self.residual_func_list) :
        /\ self.residual_func_list[n].name[1] = i
        /\ self.residual_func_list[n].name[2] = j}

\* What __init__ constructed for (i, j): one 1x1 stride-1 conv above the
\* diagonal, i - j stride-2 3x3 convs below it, named k = 0, 1, ... in order.
FuseBuilt(self, i, j) ==
    /\ Cardinality(Constructed(self, i, j)) = (IF j > i THEN 1 ELSE i - j)
    /\ \A n \in Constructed(self, i, j) :
          LET f == self.residual_func_list[n]
          IN  /\ f.conv.kernel_size = (IF j > i THEN 1 ELSE 3)
              /\ f.conv.stride = (IF j > i THEN 1 ELSE 2)
              /\ f.name[3] = Cardinality({m \in Constructed(self, i, j) : m < n})

\* In trace, output i takes exactly one contribution from branch j: the
\* convs of (i, j), each once, the upsampling by 2^(j-i) when j > i, and
\* one addition of the result.
Contribution(self, trace, i, j) ==
    /\ Cardinality(Where(trace, LAMBDA e : e.op = "add" /\ e.i = i /\ e.j = j)) = 1
    /\ Cardinality(Where(trace, LAMBDA e : e.op = "conv" /\ e.i = i /\ e.j = j))
          = (IF j > i THEN 1 ELSE i - j)
    /\ \A a \in Where(trace, LAMBDA e : e.op = "add" /\ e.i = i /\ e.j = j) :
          /\ a > 1
          /\ trace[a - 1].i = i /\ trace[a - 1].j = j
          /\ trace[a - 1].op = (IF j > i THEN "upsample" ELSE "conv")
          /\ trace[a].fb = trace[a - 1].op
          /\ j > i => /\ a > 2
                      /\ trace[a - 2].op = "conv"
                      /\ trace[a - 1].b[3] = Pow2(j - i) * trace[a - 1].a[3]
                      /\ trace[a - 1].b[4] = Pow2(j - i) * trace[a - 1].a[4]
    /\ Cardinality(Where(trace, LAMBDA e : e.op = "upsample" /\ e.i = i /\ e.j = j))
          = (IF j > i THEN 1 ELSE 0)

\* C6: in FuseLayers.forward the running index selects at every step the
\* conv __init__ constructed for that (i, j, k), every conv receives the
\* channel count it was built for, and a forward that returns has used every
\* conv once, taken one contribution from every other branch into each
\* output, applied the ReLU last, and left the index at
\* len(residual_func_list), with multi_scale_output True and False.
C6_FuseIndexAligned ==
    /\ \A n \in Passes :
          \A e \in 1..Len(Events(n)) :
              LET ev == Events(n)[e]
              IN  /\ ev.op # "index"
                  /\ ev.part = "fuse" /\ ev.op = "conv" =>
                        /\ ev.name = <<ev.i, ev.j, ev.k>>
                        /\ ev.b # <<>>
    /\ call.cls = "FuseLayers" =>
          /\ obj.actual_ch = (IF call.multi_scale_output THEN Len(call.num_channels) ELSE 1)
          /\ \A i \in 0..(obj.actual_ch - 1), j \in 0..(Len(call.num_channels) - 1) :
                FuseBuilt(obj, i, j)
          /\ \A n \in Passes :
                /\ \A e \in Where(Events(n), LAMBDA ev : ev.op = "conv") :
                      /\ Events(n)[e].idx < Len(obj.residual_func_list)
                      /\ obj.residual_func_list[Events(n)[e].idx + 1].name = Events(n)[e].name
                      /\ obj.residual_func_list[Events(n)[e].idx + 1].conv.in_channels
                            = Events(n)[e].a[2]
                /\ runs[n].r.ok =>
                      /\ FuseLayers_run(obj, runs[n].x).residual_func_idx
                            = Len(obj.residual_func_list)
                      /\ Len(runs[n].r.out) = obj.actual_ch
                      /\ \A e \in 1..Len(obj.residual_func_list) :
                            Cardinality(Where(Events(n), LAMBDA ev :
                                ev.op = "conv" /\ ev.idx = e - 1)) = 1
                      /\ \A i \in 0..(obj.actual_ch - 1) :
                            /\ runs[n].r.out[i + 1].by = "relu"
                            /\ Cardinality(Where(Events(n), LAMBDA ev :
                                  ev.op = "relu" /\ ev.i = i)) = 1
                            /\ \A j \in 0..(Len(call.num_channels) - 1) :
                                  j # i => Contribution(obj, Events(n), i, j)

\* A FuseLayers of four branches with multi_scale_output has run to its
\* return: all twelve pairs (i, j) have contributed.
C6_Witness ==
    /\ call.cls = "FuseLayers"
    /\ call.multi_scale_output
    /\ Len(call.num_channels) = 4
    /\ \E n \in Passes :
          /\ runs[n].r.ok
          /\ \E e \in 1..Len(Events(n)) :
                Events(n)[e].op = "conv" /\ Events(n)[e].name = <<3, 0, 2>>

\* A conv that keeps the spatial size and the channel count.
SameConv(conv) ==
    /\ conv.kernel_size = 3
    /\ conv.stride = 1
    /\ conv.padding = 1
    /\ conv.in_channels = conv.out_channels

\* Every BasicBlock built is one of a branch: stride 1, 3x3, padding 1, as
\* many channels out as in, no projection of the shortcut.
BranchBlocks ==
    \A n \in 1..Len(made) :
        made[n].block.cls = "BasicBlock" =>
            /\ SameConv(made[n].block.conv1)
            /\ SameConv(made[n].block.conv2)
            /\ ~made[n].block.downsample

\* Within Branches every conv returns the shape it received and every
\* residual addition has two operands of one shape.
BranchEvents ==
    \A n \in Passes :
        \A e \in 1..Len(Events(n)) :
            Events(n)[e].part = "branches" =>
                /\ Events(n)[e].op \in {"conv1", "conv2", "add"} =>
                      Events(n)[e].b = Events(n)[e].a
                /\ Events(n)[e].op # "conv_down"

\* Branches.forward returns as many tensors as it receives, of the shapes
\* it received.
BranchesKeep ==
    call.cls = "Branches" =>
        \A n \in Passes :
            /\ runs[n].r.ok
            /\ Len(runs[n].r.out) = Len(runs[n].x)
            /\ Shapes(runs[n].r.out) = Shapes(runs[n].x)

\* Output i of pass n of a stage has 1/2^i (rounded up) of the size of
\* input 0.
StageKeeps(n) ==
    \A i \in 1..Len(runs[n].r.out) :
        /\ runs[n].r.out[i].shape[3] = CeilDiv(runs[n].x[1].shape[3], Pow2(i - 1))
        /\ runs[n].r.out[i].shape[4] = CeilDiv(runs[n].x[1].shape[4], Pow2(i - 1))
        /\ runs[n].r.out[i].shape[2] = runs[n].x[i].shape[2]

\* C7 as stated: Branches returns as many tensors as it receives, its
\* blocks preserve every branch's size and channel count with equal operands
\* in every residual addition, and across a whole stage branch i keeps the
\* size ceil(H0 / 2^i), H0 the size of branch 0, for any input size.
C7_AnySize ==
    /\ BranchBlocks
    /\ BranchEvents
    /\ BranchesKeep
    /\ call.cls = "Stage" =>
          \A n \in Passes : runs[n].r.ok => StageKeeps(n)

\* C7, amended: the same, the stage's part for a branch 0 of at least 2
\* rows and 2 columns (a branch 0 of size 1 is broadcast to size 2 by the
\* fuse layer's addition).
C7_FixedResolution ==
    /\ BranchBlocks
    /\ BranchEvents
    /\ BranchesKeep
    /\ call.cls = "Stage" =>
          \A n \in Passes :
              /\ runs[n].r.ok
              /\ runs[n].x[1].shape[3] >= 2
              /\ runs[n].x[1].shape[4] >= 2
              => StageKeeps(n)

\* A stage of four branches and three modules has returned four tensors
\* for a branch 0 of 8 by 8.
C7_Witness ==
    /\ call.cls = "Stage"
    /\ call.multi_scale_output
    /\ Len(call.num_channels) = 4
    /\ \E n \in Passes :
          /\ runs[n].r.ok
          /\ runs[n].x[1].shape[3] = 8
          /\ runs[n].x[1].shape[4] = 8
          /\ Len(runs[n].r.out) = 4
          /\ \E e \in 1..Len(Events(n)) :
                Events(n)[e].part = "branches" /\ Events(n)[e].op = "add"
                    /\ Events(n)[e].i = 3

StemSize(size) == CeilDiv(CeilDiv(size, 2), 2)

FuseAdd(e) ==
    e.op = "add" /\ e.part = "fuse" /\ e.top \in {"st2", "st3", "st4"}

SameSize(e) == e.a[3] = e.b[3] /\ e.a[4] = e.b[4]

\* Pass n has run the fuse layers of st2, st3 and st4 to the end, every
\* addition on operands of one spatial size.
FuseAddsMatch(n) ==
    /\ \E e \in 1..Len(Events(n)) : Events(n)[e].top = "last_cls"
    /\ \A top \in {"st2", "st3", "st4"} :
          \E e \in 1..Len(Events(n)) : FuseAdd(Events(n)[e]) /\ Events(n)[e].top = top
    /\ \A e \in 1..Len(Events(n)) : FuseAdd(Events(n)[e]) => SameSize(Events(n)[e])

\* C9: in a forward pass of an HRNet on an input of height H and width W,
\* every addition of every fuse layer of st2, st3 and st4 has operands of one
\* spatial size exactly when the stem's output size is divisible by 8 in
\* both dimensions; the downsampled contributions always match; a multiple
\* of 32 passes and st4 returns the sizes H/4, H/8, H/16, H/32.
C9_FuseSizes ==
    call.cls = "HRNet" =>
        /\ pc = "built"
        /\ \A n \in Passes :
              LET H == runs[n].x[1].shape[3]
                  W == runs[n].x[1].shape[4]
              IN  /\ FuseAddsMatch(n) <=> (StemSize(H) % 8 = 0 /\ StemSize(W) % 8 = 0)
                  /\ \A e \in 1..Len(Events(n)) :
                        FuseAdd(Events(n)[e]) /\ Events(n)[e].j < Events(n)[e].i =>
                            SameSize(Events(n)[e])
                  /\ Multiple32(runs[n].x[1]) =>
                        \A i \in 0..3 :
                            \E e \in 1..Len(Events(n)) :
                                /\ Events(n)[e].top = "st4"
                                /\ Events(n)[e].part = "fuse"
                                /\ Events(n)[e].op = "relu"
                                /\ Events(n)[e].m = 2
                                /\ Events(n)[e].i = i
                                /\ Events(n)[e].a[3] * 4 * Pow2(i) = H
                                /\ Events(n)[e].a[4] * 4 * Pow2(i) = W

\* The head's addition idx of pass n: last_cls[idx + 1] plus the conv of y,
\* both of `ch` channels and of one spatial size.
HeadAdd(n, idx, ch) ==
    \E e \in 1..Len(Events(n)) :
        /\ Events(n)[e].top = "cls_head_add"
        /\ Events(n)[e].op = "add"
        /\ Events(n)[e].i = idx
        /\ Events(n)[e].a = Events(n)[e].b
        /\ Events(n)[e].a[2] = ch

\* C10: for every variant and class_dim, forward on an input [N, 3, H, W]
\* with H and W multiples of 32 returns a tensor [N, class_dim]: the three
\* head additions have operands of 256, 512 and 1024 channels and one
\* spatial size, conv_last maps 1024 channels to 2048 and the final Linear
\* receives 2048 features.
C10_OutputShape ==
    call.cls = "HRNet" =>
        /\ pc = "built"
        /\ \A n \in Passes : Multiple32(runs[n].x[1]) =>
              /\ runs[n].r.ok
              /\ Shapes(runs[n].r.out) = <<<<runs[n].x[1].shape[1], call.class_dim>>>>
              /\ HeadAdd(n, 0, 256)
              /\ HeadAdd(n, 1, 512)
              /\ HeadAdd(n, 2, 1024)
              /\ \E e \in 1..Len(Events(n)) :
                    /\ Events(n)[e].top = "conv_last"
                    /\ Events(n)[e].a[2] = 1024
                    /\ Events(n)[e].b[2] = 2048
              /\ \E e \in 1..Len(Events(n)) :
                    /\ Events(n)[e].top = "out"
                    /\ Events(n)[e].a = <<runs[n].x[1].shape[1], 2048>>

\* What __init__ left in conv_bn_func_list for in_channels and out_channels:
\* nothing where an existing branch keeps its channel count, a stride-1 3x3
\* conv where it changes it, and for a new branch a stride-2 3x3 conv built
\* for the last input's channels.
TransitionBuilt(self, in_channels, out_channels) ==
    /\ Len(self.conv_bn_func_list) = Len(out_channels)
    /\ \A n \in 1..Len(out_channels) :
          LET f == self.conv_bn_func_list[n]
          IN  IF n <= Len(in_channels) /\ in_channels[n] = out_channels[n]
              THEN f = None
              ELSE /\ f # None
                   /\ f.kernel_size = 3
                   /\ f.padding = 1
                   /\ f.out_channels = out_channels[n]
                   /\ f.stride = (IF n <= Len(in_channels) THEN 1 ELSE 2)
                   /\ f.in_channels = (IF n <= Len(in_channels) THEN in_channels[n]
                                       ELSE in_channels[Len(in_channels)])

\* The convs pass n applied for output i (0-based).
TransitionConvs(n, i) ==
    Where(Events(n), LAMBDA e : e.op = "conv" /\ e.i = i)

\* Output i (1-based) of pass n of a TransitionLayer: the input itself, or
\* the one conv of input i, or for a new branch the one conv of the last
\* input, at half its size rounded up.
TransitionOutput(n, i) ==
    LET x == runs[n].x
        out == runs[n].r.out[i]
        last == x[Len(x)]
    IN  /\ out.shape[2] = call.out_channels[i]
        /\ out.shape[1] = x[1].shape[1]
        /\ IF obj.conv_bn_func_list[i] = None
           THEN out = x[i] /\ TransitionConvs(n, i - 1) = {}
           ELSE /\ Cardinality(TransitionConvs(n, i - 1)) = 1
                /\ \A e \in TransitionConvs(n, i - 1) :
                      /\ Events(n)[e].b = out.shape
                      /\ Events(n)[e].a = (IF i <= Len(x) THEN x[i].shape ELSE last.shape)
                /\ i <= Len(x) => /\ out.shape[3] = x[i].shape[3]
                                  /\ out.shape[4] = x[i].shape[4]
                /\ i > Len(x) => /\ out.shape[3] = CeilDiv(last.shape[3], 2)
                                 /\ out.shape[4] = CeilDiv(last.shape[4], 2)

\* C11: TransitionLayer.forward returns len(out_channels) tensors, output i
\* of out_channels[i] channels: the input i itself where the channel counts
\* agree, a stride-1 3x3 conv of it where they differ, and for i beyond the
\* inputs a stride-2 3x3 conv of the last input, built for in_channels[-1].
\* With the channels HRNet gives tr1, tr2 and tr3 the branch count goes
\* 1 -> 2 -> 3 -> 4, every transition adds one branch at half (rounded up)
\* the size of the lowest, tr2 and tr3 return the existing branches
\* themselves and tr1 convolves both of its outputs.
C11_TransitionOutputs ==
    /\ call.cls = "HRNet" /\ pc = "built" =>
          /\ TransitionBuilt(obj.tr1, <<256>>, channels[call.name.w][1])
          /\ TransitionBuilt(obj.tr2, channels[call.name.w][1], channels[call.name.w][2])
          /\ TransitionBuilt(obj.tr3, channels[call.name.w][2], channels[call.name.w][3])
    /\ call.cls = "TransitionLayer" =>
          /\ TransitionBuilt(obj, call.num_channels, call.out_channels)
          /\ Len(call.out_channels) = Len(call.num_channels) + 1
          /\ \A i \in 1..Len(call.num_channels) :
                (obj.conv_bn_func_list[i] # None) = (Len(call.num_channels) = 1)
          /\ \A n \in Passes :
                /\ runs[n].r.ok
                /\ Len(runs[n].r.out) = Len(call.out_channels)
                /\ Len(runs[n].r.out) = Len(runs[n].x) + 1
                /\ \A i \in 1..Len(call.out_channels) : TransitionOutput(n, i)
                /\ Where(Events(n), LAMBDA e : e.op # "conv") = {}

\* A transition from two branches to three has run on a lowest branch of 3
\* rows: the two branches come back themselves and the new one has 2 rows.
C11_Witness ==
    /\ call.cls = "TransitionLayer"
    /\ Len(call.num_channels) = 2
    /\ \E n \in Passes :
          /\ runs[n].r.ok
          /\ runs[n].x[2].shape[3] = 3
          /\ runs[n].r.out[1] = runs[n].x[1]
          /\ runs[n].r.out[2] = runs[n].x[2]
          /\ runs[n].r.out[3].shape[3] = 2

\* A BottleneckBlock from num_channels to 256 channels, its shortcut
\* projected or not.
BlockMaps(b, num_channels, downsample) ==
    /\ b.cls = "BottleneckBlock"
    /\ b.conv1.in_channels = num_channels
    /\ b.conv3.out_channels = 256
    /\ b.downsample = downsample
    /\ downsample => /\ b.conv_down.in_channels = num_channels
                     /\ b.conv_down.out_channels = 256

\* The Layer1 the constructor call built: the object, or HRNet's la1.
TheLayer1 == IF call.cls = "HRNet" THEN obj.la1 ELSE obj

\* Pass n applies four blocks in index order, each a callable block ending
\* in its one residual addition on 256 channels.
FourBottlenecks(n) ==
    /\ runs[n].r.ok
    /\ Channels(runs[n].r.out) = <<256>>
    /\ Where(Events(n), LAMBDA e : e.op = "not callable") = {}
    /\ \A i \in 0..3 :
          Cardinality(Where(Events(n), LAMBDA e : e.op = "add" /\ e.i = i /\ e.a[2] = 256)) = 1
    /\ \A a \in 1..Len(Events(n)), b \in 1..Len(Events(n)) :
          Events(n)[a].i < Events(n)[b].i => a < b

\* C12: Layer1's bottleneck_block_list holds exactly four BottleneckBlocks
\* and forward applies them in index order: the first maps 64 channels to 256
\* with a projected shortcut, the other three 256 to 256 with an identity
\* shortcut, and every element iterated is a callable block, not a name.
\* (Fails: the unpacked dict gives nn.Sequential its four keys.)
C12_Layer1Blocks ==
    call.cls \in {"Layer1", "HRNet"} =>
        /\ pc = "built"
        /\ Len(TheLayer1.bottleneck_block_list.sub_layers) = 4
        /\ BlockMaps(TheLayer1.bottleneck_block_list.sub_layers[1], 64, TRUE)
        /\ \A n \in 2..4 :
              BlockMaps(TheLayer1.bottleneck_block_list.sub_layers[n], 256, FALSE)
        /\ call.cls = "Layer1" => \A n \in Passes : FourBottlenecks(n)
        /\ call.cls = "HRNet" =>
              \A n \in Passes : Where(Events(n), LAMBDA e : e.op = "not callable") = {}

====
